---- MODULE Spec2Model ----
(***************************************************************************)
(* A model of nessus_parser.py: the benchmark cache population             *)
(* (load_benchmark_files), the scan-document conversion                    *)
(* (parse_nessus_xccdf_results) and main's processing loop.                *)
(*                                                                         *)
(* Python strings are sequences of one-character strings, so that          *)
(* startswith / endswith / in / lower / split / basename are computed,     *)
(* not assumed.  An XML document is the sequence of its elements in        *)
(* document order; an element is [tag, parent, attrib, text], its tag      *)
(* spelled as ElementTree spells it ("{uri}local" or "local").             *)
(***************************************************************************)
EXTENDS Integers, Sequences, FiniteSets, TLC

\* ------------------------------------------------------------ string literals
XCCDF_1_1 == <<"h","t","t","p",":","/","/","c","h","e","c","k","l","i","s","t","s",".","n","i","s","t",".","g","o","v","/","x","c","c","d","f","/","1",".","1">>
XCCDF_1_2 == <<"h","t","t","p",":","/","/","c","h","e","c","k","l","i","s","t","s",".","n","i","s","t",".","g","o","v","/","x","c","c","d","f","/","1",".","2">>
S_lbrace == <<"{">>
S_rbrace == <<"}">>
S_slash == <<"/">>
S_Benchmark == <<"B","e","n","c","h","m","a","r","k">>
S_Group == <<"G","r","o","u","p">>
S_Rule == <<"R","u","l","e">>
S_TestResult == <<"T","e","s","t","R","e","s","u","l","t">>
S_benchmark == <<"b","e","n","c","h","m","a","r","k">>
S_rule_result == <<"r","u","l","e","-","r","e","s","u","l","t">>
S_result == <<"r","e","s","u","l","t">>
S_title == <<"t","i","t","l","e">>
S_description == <<"d","e","s","c","r","i","p","t","i","o","n">>
S_version == <<"v","e","r","s","i","o","n">>
S_check == <<"c","h","e","c","k">>
S_check_content == <<"c","h","e","c","k","-","c","o","n","t","e","n","t">>
S_fixtext == <<"f","i","x","t","e","x","t">>
S_ident == <<"i","d","e","n","t">>
S_target == <<"t","a","r","g","e","t">>
S_target_address == <<"t","a","r","g","e","t","-","a","d","d","r","e","s","s">>
S_check_content_ref == <<"c","h","e","c","k","-","c","o","n","t","e","n","t","-","r","e","f">>
S_message == <<"m","e","s","s","a","g","e">>
S_pass == <<"p","a","s","s">>
S_fail == <<"f","a","i","l">>
S_error == <<"e","r","r","o","r">>
S_unknown == <<"u","n","k","n","o","w","n">>
S_notapplicable == <<"n","o","t","a","p","p","l","i","c","a","b","l","e">>
S_notchecked == <<"n","o","t","c","h","e","c","k","e","d">>
S_notselected == <<"n","o","t","s","e","l","e","c","t","e","d">>
S_informational == <<"i","n","f","o","r","m","a","t","i","o","n","a","l">>
S_fixed == <<"f","i","x","e","d">>
S_not_a_finding == <<"n","o","t","_","a","_","f","i","n","d","i","n","g">>
S_open == <<"o","p","e","n">>
S_not_reviewed == <<"n","o","t","_","r","e","v","i","e","w","e","d">>
S_not_applicable == <<"n","o","t","_","a","p","p","l","i","c","a","b","l","e">>
S_medium == <<"m","e","d","i","u","m">>
S_Unknown_STIG == <<"U","n","k","n","o","w","n","_","S","T","I","G">>
S_Unknown_Host == <<"U","n","k","n","o","w","n","_","H","o","s","t">>
S_Check_performed == <<"C","h","e","c","k"," ","p","e","r","f","o","r","m","e","d",":"," ">>
S_comma_space == <<","," ">>
S_cci == <<"c","c","i">>
S_xccdf == <<"x","c","c","d","f">>
S_xccdf_xml == <<"x","c","c","d","f",".","x","m","l">>
S_dot_xml == <<".","x","m","l">>
S_dot_zip == <<".","z","i","p">>

\* Python's None: a value no character sequence equals (its one element is
\* not a single character).
None == <<"None">>

\* ------------------------------------------------------------ str methods
StartsWith(s, p) == Len(p) <= Len(s) /\ SubSeq(s, 1, Len(p)) = p

EndsWith(s, p) == Len(p) <= Len(s) /\ SubSeq(s, Len(s) - Len(p) + 1, Len(s)) = p

\* `p in s`
Contains(s, p) == \E i \in 1..(Len(s) - Len(p) + 1) : SubSeq(s, i, i + Len(p) - 1) = p

UpperChars == <<"A","B","C","D","E","F","G","H","I","J","K","L","M","N","O","P","Q","R","S","T","U","V","W","X","Y","Z">>
LowerChars == <<"a","b","c","d","e","f","g","h","i","j","k","l","m","n","o","p","q","r","s","t","u","v","w","x","y","z">>

LowerChar(c) == IF \E i \in 1..26 : UpperChars[i] = c
                THEN LowerChars[CHOOSE i \in 1..26 : UpperChars[i] = c]
                ELSE c

\* str.lower()
Lower(s) == [i \in 1..Len(s) |-> LowerChar(s[i])]

\* s.split(sep)[0] for a one-character sep
SplitFirst(s, sep) == IF \E i \in 1..Len(s) : <<s[i]>> = sep
                      THEN SubSeq(s, 1, (CHOOSE i \in 1..Len(s) :
                                           <<s[i]>> = sep /\ \A j \in 1..(i-1) : <<s[j]>> # sep) - 1)
                      ELSE s

\* os.path.basename (posix): what follows the last "/"
basename(p) == IF \E i \in 1..Len(p) : <<p[i]>> = S_slash
               THEN SubSeq(p, (CHOOSE i \in 1..Len(p) :
                                 <<p[i]>> = S_slash /\ \A j \in (i+1)..Len(p) : <<p[j]>> # S_slash) + 1, Len(p))
               ELSE p

\* sep.join(items)
RECURSIVE Join(_, _)
Join(sep, items) == IF items = <<>> THEN <<>>
                    ELSE IF Len(items) = 1 THEN items[1]
                    ELSE items[1] \o sep \o Join(sep, Tail(items))

\* Python truthiness of an Optional[str]
Truthy(s) == s # None /\ s # <<>>

\* The value as it is, None included.
OrEmpty_Raw(s) == s

\* `x or ""`
OrEmpty(s) == IF Truthy(s) THEN s ELSE <<>>

\* The increasing sequence of the members of a set of naturals.
RECURSIVE SortedSeq(_)
SortedSeq(S) == IF S = {} THEN <<>>
                ELSE LET m == CHOOSE x \in S : \A y \in S : x <= y
                     IN <<m>> \o SortedSeq(S \ {m})

\* ------------------------------------------------------------ ElementTree
\* An element reference: the document it lives in and its position there.
\* NoElem is what find() returns for no match.
NoAttrib == [k \in {} |-> <<>>]
Node(tag, parent, attrib, text) == [tag |-> tag, parent |-> parent, attrib |-> attrib, text |-> text]
Elem(d, i) == [d |-> d, i |-> i]
NoElem == [d |-> <<>>, i |-> 0]

\* "{uri}local"
QTag(uri, local) == S_lbrace \o uri \o S_rbrace \o local

\* The tag a prefixed name xccdf:local resolves to under the alias table ns.
QName(ns, local) == QTag(ns.xccdf, local)

tag(e) == e.d[e.i].tag
text(e) == e.d[e.i].text

\* elem.get(key, default)
get(e, key, default) == IF key \in DOMAIN e.d[e.i].attrib THEN e.d[e.i].attrib[key] ELSE default

RECURSIVE IsAncestor(_, _, _)
IsAncestor(d, a, i) == IF i = 0 \/ d[i].parent = 0 THEN FALSE
                       ELSE d[i].parent = a \/ IsAncestor(d, a, d[i].parent)

\* len(elem): the number of children, which is also an Element's truth value
NumChildren(e) == Cardinality({j \in 1..Len(e.d) : e.d[j].parent = e.i})

\* elem.iter(): the element and its descendants, in document order
iter(e) == LET S == {j \in 1..Len(e.d) : j = e.i \/ IsAncestor(e.d, e.i, j)}
               o == SortedSeq(S)
           IN [k \in 1..Len(o) |-> Elem(e.d, o[k])]

\* elem.findall('.//TAG'): the descendants with that tag, in document order
findall_desc(e, t) == LET S == {j \in 1..Len(e.d) : IsAncestor(e.d, e.i, j) /\ e.d[j].tag = t}
                          o == SortedSeq(S)
                      IN [k \in 1..Len(o) |-> Elem(e.d, o[k])]

\* elem.findall('TAG'): the children with that tag, in document order
findall_child(e, t) == LET S == {j \in 1..Len(e.d) : e.d[j].parent = e.i /\ e.d[j].tag = t}
                           o == SortedSeq(S)
                       IN [k \in 1..Len(o) |-> Elem(e.d, o[k])]

First(es) == IF es = <<>> THEN NoElem ELSE es[1]

\* elem.find('.//TAG') and elem.find('TAG')
find_desc(e, t) == First(findall_desc(e, t))
find_child(e, t) == First(findall_child(e, t))

\* elem.findtext('TAG', default): the first matching child's text, "" when
\* that child has no text, default when there is no such child
findtext_child(e, t, default) == LET c == find_child(e, t)
                                 IN IF c = NoElem THEN default ELSE OrEmpty(text(c))

\* elem.findtext('.//TAG', default)
findtext_desc(e, t, default) == LET c == find_desc(e, t)
                                IN IF c = NoElem THEN default ELSE OrEmpty(text(c))

\* ------------------------------------------------------------ input documents
\* The bytes of a file are given by a descriptor of the XML they spell;
\* ET.fromstring expands a well-formed descriptor into its element tree and
\* raises ParseError on the others.  The strings below are input data.
D_results == <<"r","e","s","u","l","t","s">>
D_TestResults == <<"T","e","s","t","R","e","s","u","l","t","s">>
D_ns_results == <<"u","r","n",":","T","e","s","t","R","e","s","u","l","t",":","1">>
D_V == <<"V","-">>
D_R == <<"R","-">>
D_high == <<"h","i","g","h">>
D_low == <<"l","o","w">>
D_cc == <<"c","h","e","c","k"," ","b","o","d","y"," ">>
D_fix == <<"f","i","x"," ","b","o","d","y"," ">>
D_gtitle == <<"g","r","o","u","p"," ","t","i","t","l","e"," ">>
D_rtitle == <<"r","u","l","e"," ","t","i","t","l","e"," ">>
D_desc == <<"d","i","s","c","u","s","s","i","o","n"," ">>
D_ver == <<"S","V","-">>
D_cci_system == <<"h","t","t","p",":","/","/","c","y","b","e","r",".","m","i","l","/","C","C","I">>
D_other_system == <<"h","t","t","p",":","/","/","c","y","b","e","r",".","m","i","l","/","l","e","g","a","c","y">>
D_cci1 == <<"C","C","I","-","0","0","0","3","6","6">>
D_cci2 == <<"C","C","I","-","0","0","1","9","4","1">>
D_legacy == <<"S","V","-","1","0","0","0">>
D_btitle == <<"T","e","s","t"," ","S","T","I","G"," ">>
D_bid == <<"T","e","s","t","_","S","T","I","G","_">>
D_host == <<"h","o","s","t","1">>
D_ip == <<"1","0",".","0",".","0",".","1">>
D_trid == <<"s","c","a","n","-","1">>
D_start == <<"2","0","2","6","-","0","1","-","1","6","T","0","0",":","0","0",":","0","0">>
D_chkname == <<"o","v","a","l",":","m","i","l",".","d","i","s","a",":","d","e","f",":">>
D_msg == <<"s","c","a","n","n","e","r"," ","n","o","t","e"," ">>
D_digits == <<"0","1","2","3","4","5","6","7","8","9">>

\* The namespaces a root element is given: none, XCCDF 1.1, XCCDF 1.2.
NsChoices == {<<>>, XCCDF_1_1, XCCDF_1_2}

Digit(g) == <<D_digits[(g % 10) + 1]>>

\* The tag of an element named `local` written in namespace uri (none: <<>>).
TagIn(uri, local) == IF uri = <<>> THEN local ELSE QTag(uri, local)

\* d with the subtree sub (its root's parent 0) appended as last child of p.
Graft(d, p, sub) == d \o [k \in 1..Len(sub) |->
                            [sub[k] EXCEPT !.parent = IF @ = 0 THEN p ELSE @ + Len(d)]]

\* <Rule id="R-r" severity="high"> with title, description, version, check /
\* check-content, fixtext and three ident children (r odd), or a bare
\* <Rule id="R-r"/> (r even).
RuleTree(uri, r, mark) ==
    IF r % 2 = 1
    THEN << Node(TagIn(uri, S_Rule), 0, [id |-> D_R \o Digit(r), severity |-> D_high], None),
            Node(TagIn(uri, S_title), 1, NoAttrib, D_rtitle \o mark),
            Node(TagIn(uri, S_description), 1, NoAttrib, D_desc \o mark),
            Node(TagIn(uri, S_version), 1, NoAttrib, D_ver \o Digit(r)),
            Node(TagIn(uri, S_check), 1, [system |-> D_other_system], None),
            Node(TagIn(uri, S_check_content), 5, NoAttrib, D_cc \o mark),
            Node(TagIn(uri, S_fixtext), 1, NoAttrib, D_fix \o mark),
            Node(TagIn(uri, S_ident), 1, [system |-> D_cci_system], D_cci1),
            Node(TagIn(uri, S_ident), 1, [system |-> D_other_system], D_legacy),
            Node(TagIn(uri, S_ident), 1, [system |-> D_cci_system], D_cci2) >>
    ELSE << Node(TagIn(uri, S_Rule), 0, [id |-> D_R \o Digit(r)], None) >>

\* <Group id="V-g"><title/>RULE</Group>; an even group has no title.
GroupTree(uri, g, r, mark) ==
    LET top == IF g % 2 = 1
               THEN << Node(TagIn(uri, S_Group), 0, [id |-> D_V \o Digit(g)], None),
                       Node(TagIn(uri, S_title), 1, NoAttrib, D_gtitle \o Digit(g)) >>
               ELSE << Node(TagIn(uri, S_Group), 0, [id |-> D_V \o Digit(g)], None) >>
    IN Graft(top, 1, RuleTree(uri, r, mark))

\* <Group id="V-g"><title/><Rule id="R-g">..</Rule></Group> whose rule has
\* no severity and whose elements are all empty.
HollowGroupTree(uri, g) ==
    << Node(TagIn(uri, S_Group), 0, [id |-> D_V \o Digit(g)], None),
       Node(TagIn(uri, S_title), 1, NoAttrib, None),
       Node(TagIn(uri, S_Rule), 1, [id |-> D_R \o Digit(g)], None),
       Node(TagIn(uri, S_title), 3, NoAttrib, None),
       Node(TagIn(uri, S_description), 3, NoAttrib, None),
       Node(TagIn(uri, S_version), 3, NoAttrib, None),
       Node(TagIn(uri, S_check), 3, NoAttrib, None),
       Node(TagIn(uri, S_check_content), 7, NoAttrib, None),
       Node(TagIn(uri, S_fixtext), 3, NoAttrib, None),
       Node(TagIn(uri, S_ident), 3, [system |-> D_cci_system], None) >>

\* The groups 1..n under element p of d.  layout "flat": siblings, rule R-g in
\* group V-g; "dup": siblings, every group holding a rule with id R-1;
\* "nested": each group inside the previous one; "hollow": siblings whose
\* elements are all empty.
RECURSIVE GraftGroups(_, _, _, _, _, _, _)
GraftGroups(d, p, uri, g, n, layout, mark) ==
    IF g > n THEN d
    ELSE LET r == IF layout = "dup" THEN 1 ELSE g
             d2 == Graft(d, p, IF layout = "hollow" THEN HollowGroupTree(uri, g)
                               ELSE GroupTree(uri, g, r, mark))
             p2 == IF layout = "nested" THEN Len(d) + 1 ELSE p
         IN GraftGroups(d2, p2, uri, g + 1, n, layout, mark)

\* <Benchmark id=..><title/>GROUPS</Benchmark>
BenchmarkTree(uri, n, layout, mark) ==
    GraftGroups(<< Node(TagIn(uri, S_Benchmark), 0, [id |-> D_bid \o mark], None),
                   Node(TagIn(uri, S_title), 1, NoAttrib, D_btitle \o mark) >>,
                1, uri, 1, n, layout, mark)

\* The result texts a scanner writes, and two more shapes of the result
\* child: present with no text (None), and not there at all (Absent).
Absent == <<"Absent">>
D_FAIL == <<"F","A","I","L">>
D_Pass == <<"P","a","s","s">>
D_bogus == <<"n","/","a">>
ResultTexts == << S_pass, D_FAIL, S_error, S_unknown, S_notapplicable, S_notchecked,
                  S_notselected, S_informational, S_fixed, D_Pass, D_bogus, None, Absent >>

\* The m-th kind of rule-result: its idref cycles over R-1, R-9 (a rule of no
\* benchmark) and R-2; kind 12 has no idref attribute; odd kinds carry a
\* check / check-content-ref and a message.
RuleResultTree(uri, m) ==
    LET idref == IF m % 3 = 1 THEN D_R \o Digit(1)
                 ELSE IF m % 3 = 2 THEN D_R \o Digit(9) ELSE D_R \o Digit(2)
        top == << Node(TagIn(uri, S_rule_result), 0,
                       IF m = 12 THEN NoAttrib ELSE [idref |-> idref], None) >>
        res == IF ResultTexts[m] = Absent THEN <<>>
               ELSE << Node(TagIn(uri, S_result), 1, NoAttrib, ResultTexts[m]) >>
        chk == IF m % 2 = 1
               THEN << Node(TagIn(uri, S_check), 1, NoAttrib, None),
                       Node(TagIn(uri, S_check_content_ref), Len(res) + 2,
                            [name |-> D_chkname \o Digit(m)], None),
                       Node(TagIn(uri, S_message), 1, NoAttrib, D_msg \o Digit(m)) >>
               ELSE <<>>
    IN top \o res \o chk

RECURSIVE GraftRuleResults(_, _, _, _, _)
GraftRuleResults(d, p, uri, k, n) ==
    IF n = 0 THEN d
    ELSE GraftRuleResults(Graft(d, p, RuleResultTree(uri, ((k - 1) % Len(ResultTexts)) + 1)),
                          p, uri, k + 1, n - 1)

\* <TestResult id=.. start-time=..>[<benchmark href=../>]<target/>
\* <target-address/>RULE-RESULTS</TestResult>; href None: no benchmark child.
TestResultTree(uri, href, k, n) ==
    LET top == << Node(TagIn(uri, S_TestResult), 0,
                       ("start-time" :> D_start) @@ [id |-> D_trid], None) >>
        ref == IF href = None THEN <<>>
               ELSE << Node(TagIn(uri, S_benchmark), 1, [href |-> href], None) >>
        tgt == << Node(TagIn(uri, S_target), 1, NoAttrib, D_host),
                  Node(TagIn(uri, S_target_address), 1, NoAttrib, D_ip) >>
    IN GraftRuleResults(top \o ref \o tgt, 1, uri, k, n)

\* tree, or (wrapped) a root element <results> holding it.
WrapIf(wrapped, uri, tree) ==
    IF wrapped THEN Graft(<< Node(TagIn(uri, D_results), 0, NoAttrib, None) >>, 1, tree)
    ELSE tree

\* A benchmark file: root Benchmark, or (wrapped) a root element holding it.
BenchmarkDoc(b) == WrapIf(b.wrapped, b.ns, BenchmarkTree(b.ns, b.ngroups, b.layout, b.mark))

\* sub appended under the root of top; sub itself when top is empty.
GraftUnderRoot(top, sub) == Graft(top, IF top = <<>> THEN 0 ELSE 1, sub)

\* A scan export.  shape "TestResult": the root is the TestResult;
\* "Benchmark": the root is a Benchmark holding its groups and then the
\* TestResult; "wrapper": another root element holding (hasBench) a Benchmark
\* and then the TestResult; "collection": a root element <TestResults>
\* holding the TestResult.  The TestResult subtree is written in trNs.
ScanTop(s) ==
    IF s.shape = "TestResult" THEN <<>>
    ELSE IF s.shape = "collection"
    THEN << Node(TagIn(s.ns, D_TestResults), 0, NoAttrib, None) >>
    ELSE IF s.shape = "wrapper" /\ ~s.hasBench
    THEN << Node(TagIn(s.ns, D_results), 0, NoAttrib, None) >>
    ELSE WrapIf(s.shape = "wrapper", s.ns, BenchmarkTree(s.ns, s.ngroups, s.layout, s.mark))

ScanDoc(s) == GraftUnderRoot(ScanTop(s), TestResultTree(s.trNs, s.href, s.k, s.n))

\* Whether the bytes are well-formed XML, and the tree ET.fromstring gives.
WellFormed(bytes) == bytes.wf
fromstring(bytes) == IF bytes.kind = "benchmark" THEN BenchmarkDoc(bytes) ELSE ScanDoc(bytes)

\* ------------------------------------------------------------ parse_nessus_xccdf_results
\* `a` unless it is None, then `b`.
OrElse(a, b) == IF a.i = 0 THEN b ELSE a

\* The alias table: {'xccdf': <the URI of the root tag>}, and the XCCDF 1.1
\* default when the root tag carries no namespace.
RootNs(root) ==
    IF StartsWith(tag(root), S_lbrace)
    THEN [xccdf |-> Tail(SplitFirst(tag(root), S_rbrace))]
    ELSE [xccdf |-> XCCDF_1_1]

\* `benchmark is None or len(benchmark.findall('.//xccdf:Group', ns)) == 0`
NoGroups(benchmark, ns) ==
    benchmark.i = 0 \/ Len(findall_desc(benchmark, QName(ns, S_Group))) = 0

\* The TestResult in which the benchmark reference is looked for.
RefTestResult(root, ns) ==
    IF Contains(tag(root), S_TestResult) THEN root
    ELSE find_desc(root, QName(ns, S_TestResult))

\* The benchmark reference element of a TestResult.
BenchmarkElem(test_result, ns) ==
    OrElse(find_desc(test_result, QName(ns, S_benchmark)),
           find_child(test_result, QName(ns, S_benchmark)))

\* benchmark_href: the href of the reference, '' when there is no TestResult,
\* no reference element or no href.
HrefOf(benchmark_elem) ==
    IF benchmark_elem.i = 0 THEN <<>> ELSE get(benchmark_elem, "href", <<>>)
HrefIn(test_result, ns) ==
    IF test_result.i = 0 THEN <<>> ELSE HrefOf(BenchmarkElem(test_result, ns))
BenchmarkHref(root, ns) == HrefIn(RefTestResult(root, ns), ns)

\* "Update namespace to match the benchmark file": the alias table after an
\* external benchmark document was parsed.
BenchmarkNs(benchmark_root, ns) ==
    IF StartsWith(tag(benchmark_root), S_lbrace)
    THEN [xccdf |-> Tail(SplitFirst(tag(benchmark_root), S_rbrace))]
    ELSE ns

\* `found or benchmark_root` (an Element with no children is false)
ElemOr(found, benchmark_root) ==
    IF found.i # 0 /\ NumChildren(found) > 0 THEN found ELSE benchmark_root

\* `benchmark_root.find('.//xccdf:Benchmark', ns) or benchmark_root`
BenchmarkOf(benchmark_root, ns) ==
    ElemOr(find_desc(benchmark_root, QName(ns, S_Benchmark)), benchmark_root)

\* The state of the resolution: the benchmark element, the alias table, how
\* the benchmark was come by (via), the filename tested against the cache
\* (looked; None when the cache was not consulted), whether an entry was
\* read (hit), and the exception on its way up, if any.
Resolution(raised, benchmark, ns, via, looked, hit) ==
    [raised |-> raised, benchmark |-> benchmark, ns |-> ns, via |-> via,
     looked |-> looked, hit |-> hit]

\* An external benchmark document (a cache entry or the explicit bytes) is
\* parsed; it takes over both the benchmark and the alias table.
LoadRoot(benchmark_root, ns2, via, looked, hit) ==
    Resolution("none", BenchmarkOf(benchmark_root, ns2), ns2, via, looked, hit)

LoadExternal(bytes, ns, via, looked, hit) ==
    IF ~WellFormed(bytes)
    THEN Resolution("ParseError", NoElem, ns, via, looked, hit)
    ELSE LoadRoot(Elem(fromstring(bytes), 1),
                  BenchmarkNs(Elem(fromstring(bytes), 1), ns), via, looked, hit)

\* `if benchmark_href:` ... `if benchmark_filename in BENCHMARK_CACHE:`
FromCache(cache, ns, embedded, benchmark_href) ==
    IF benchmark_href # <<>> /\ basename(benchmark_href) \in DOMAIN cache
    THEN LoadExternal(cache[basename(benchmark_href)], ns, "cache",
                      basename(benchmark_href), TRUE)
    ELSE Resolution("none", embedded, ns,
                    IF embedded.i = 0 THEN "none" ELSE "embedded_empty",
                    IF benchmark_href # <<>> THEN basename(benchmark_href) ELSE None, FALSE)

\* "If still no benchmark and external benchmark provided, use it"
FromExplicit(benchmark_bytes, s) ==
    IF s.raised = "none" /\ NoGroups(s.benchmark, s.ns) /\ benchmark_bytes.kind # "none"
    THEN LoadExternal(benchmark_bytes, s.ns, "explicit", s.looked, s.hit)
    ELSE s

\* A resolver that gives the conversion up when nothing was resolved.
FallbackRoot_Raise(root, s) ==
    IF s.raised = "none" /\ s.benchmark.i = 0
    THEN [s EXCEPT !.raised = "ValueError"]
    ELSE s

\* "Fallback to root if still no benchmark"
FallbackRoot(root, s) ==
    IF s.raised = "none" /\ s.benchmark.i = 0
    THEN [s EXCEPT !.benchmark = root, !.via = "root"]
    ELSE s

\* The benchmark resolution: the embedded benchmark when it has a group, else
\* the cache entry named by the benchmark href, else the explicit bytes, else
\* what is left (the group-less embedded benchmark, or the scan root).
ResolveEmbedded(root, benchmark_bytes, cache, ns, embedded) ==
    IF ~NoGroups(embedded, ns)
    THEN Resolution("none", embedded, ns, "embedded", None, FALSE)
    ELSE FallbackRoot(root,
           FromExplicit(benchmark_bytes,
             FromCache(cache, ns, embedded, BenchmarkHref(root, ns))))

ResolveWithNs(root, benchmark_bytes, cache, ns) ==
    ResolveEmbedded(root, benchmark_bytes, cache, ns, find_desc(root, QName(ns, S_Benchmark)))

ResolveBenchmark(root, benchmark_bytes, cache) ==
    ResolveWithNs(root, benchmark_bytes, cache, RootNs(root))

\* "Last resort - look for any element with TestResult in the tag"
RECURSIVE FirstTagContaining(_, _)
FirstTagContaining(es, word) ==
    IF es = <<>> THEN NoElem
    ELSE IF Contains(tag(Head(es)), word) THEN Head(es)
    ELSE FirstTagContaining(Tail(es), word)

\* A locator without the last resort.
LocateTestResult_Qualified(root, ns) ==
    IF Contains(tag(root), S_TestResult) THEN root
    ELSE OrElse(OrElse(OrElse(find_desc(root, QName(ns, S_TestResult)),
                              find_desc(root, QTag(XCCDF_1_1, S_TestResult))),
                       find_desc(root, QTag(XCCDF_1_2, S_TestResult))),
                find_child(root, QName(ns, S_TestResult)))

\* The TestResult whose rule-results are converted (NoElem: ValueError).
LocateTestResult(root, ns) ==
    IF Contains(tag(root), S_TestResult) THEN root
    ELSE OrElse(OrElse(OrElse(OrElse(find_desc(root, QName(ns, S_TestResult)),
                                     find_desc(root, QTag(XCCDF_1_1, S_TestResult))),
                              find_desc(root, QTag(XCCDF_1_2, S_TestResult))),
                       find_child(root, QName(ns, S_TestResult))),
                FirstTagContaining(iter(root), S_TestResult))

\* A table whose default is the scanner's own word.
status_map_Passthrough(result_status) ==
    CASE result_status = S_pass -> S_not_a_finding
      [] result_status = S_fail -> S_open
      [] result_status = S_error -> S_open
      [] result_status = S_notapplicable -> S_not_applicable
      [] result_status = S_fixed -> S_not_a_finding
      [] OTHER -> result_status

\* status_map.get(result_status, 'not_reviewed')
status_map(result_status) ==
    CASE result_status = S_pass -> S_not_a_finding
      [] result_status = S_fail -> S_open
      [] result_status = S_error -> S_open
      [] result_status = S_unknown -> S_not_reviewed
      [] result_status = S_notapplicable -> S_not_applicable
      [] result_status = S_notchecked -> S_not_reviewed
      [] result_status = S_notselected -> S_not_reviewed
      [] result_status = S_informational -> S_not_reviewed
      [] result_status = S_fixed -> S_not_a_finding
      [] OTHER -> S_not_reviewed

\* The texts of the ident elements whose system attribute names a CCI.
RECURSIVE CciRefs(_)
CciRefs(idents) ==
    IF idents = <<>> THEN <<>>
    ELSE (IF Truthy(get(Head(idents), "system", None))
             /\ Contains(Lower(get(Head(idents), "system", <<>>)), S_cci)
          THEN << OrEmpty(text(Head(idents))) >> ELSE <<>>) \o CciRefs(Tail(idents))

\* `elem.text or ""` of an element that may be None, '' then.
TextOrEmpty(elem) == IF elem.i = 0 THEN <<>> ELSE OrEmpty(text(elem))

\* rule.find('.//xccdf:check', ns) and, under it, the check-content
CheckContentElem(check_elem, ns) ==
    IF check_elem.i = 0 THEN NoElem ELSE find_desc(check_elem, QName(ns, S_check_content))

\* The Rule Definition built for one rule met under one group.
RuleDefinition(group, rule, ns) ==
    [rule_id |-> get(rule, "id", <<>>),
     group_id |-> get(group, "id", <<>>),
     vuln_id |-> get(group, "id", <<>>),
     group_title |-> findtext_child(group, QName(ns, S_title), <<>>),
     rule_title |-> findtext_child(rule, QName(ns, S_title), <<>>),
     severity |-> get(rule, "severity", S_medium),
     description |-> findtext_child(rule, QName(ns, S_description), <<>>),
     version |-> findtext_desc(rule, QName(ns, S_version), <<>>),
     check_content |-> TextOrEmpty(CheckContentElem(find_desc(rule, QName(ns, S_check)), ns)),
     fix_text |-> TextOrEmpty(find_desc(rule, QName(ns, S_fixtext))),
     cci_ref |-> Join(S_comma_space, CciRefs(findall_desc(rule, QName(ns, S_ident))))]

\* The (group, rule) pairs in the order the two nested loops visit them.
PairsOf(group, rules) == [k \in 1..Len(rules) |-> <<group, rules[k]>>]

RECURSIVE GroupRulePairs(_, _)
GroupRulePairs(groups, ns) ==
    IF groups = <<>> THEN <<>>
    ELSE PairsOf(Head(groups), findall_desc(Head(groups), QName(ns, S_Rule)))
         \o GroupRulePairs(Tail(groups), ns)

\* An assignment that keeps the definition a key already has.
Assign_KeepFirst(before, def) ==
    [k \in (DOMAIN before) \cup {def.rule_id} |->
       IF k \in DOMAIN before THEN before[k] ELSE def]

\* rule_definitions[rule_id] = {...}: a later assignment to the same key
\* replaces the earlier one.
Assign(before, def) ==
    [k \in (DOMAIN before) \cup {def.rule_id} |-> IF k = def.rule_id THEN def ELSE before[k]]

RECURSIVE AssignAll(_, _)
AssignAll(pairs, ns) ==
    IF pairs = <<>> THEN [k \in {} |-> <<>>]
    ELSE Assign(AssignAll(SubSeq(pairs, 1, Len(pairs) - 1), ns),
                RuleDefinition(pairs[Len(pairs)][1], pairs[Len(pairs)][2], ns))

rule_definitions(benchmark, ns) ==
    AssignAll(GroupRulePairs(findall_desc(benchmark, QName(ns, S_Group)), ns), ns)

\* rule_definitions.get(rule_idref, {...}): the indexed definition, or the
\* placeholder of a rule-result whose idref is not indexed.
RuleDefOf(defs, rule_idref) ==
    IF rule_idref \in DOMAIN defs THEN defs[rule_idref]
    ELSE [rule_id |-> rule_idref, vuln_id |-> rule_idref, group_id |-> rule_idref,
          group_title |-> <<>>, rule_title |-> rule_idref, severity |-> S_medium,
          description |-> <<>>, check_content |-> <<>>, fix_text |-> <<>>,
          version |-> <<>>, cci_ref |-> <<>>]

\* "Check performed: <name>" when the rule-result's check holds a
\* check-content-ref, '' otherwise.
CheckContentRef(check_elem, ns) ==
    IF check_elem.i = 0 THEN NoElem
    ELSE find_desc(check_elem, QName(ns, S_check_content_ref))
FindingDetails(check_content_ref) ==
    IF check_content_ref.i = 0 THEN <<>>
    ELSE S_Check_performed \o get(check_content_ref, "name", <<>>)

\* The first message element's text when it has one, '' otherwise.
Comments(message_elem) ==
    IF message_elem.i # 0 /\ Truthy(text(message_elem)) THEN text(message_elem) ELSE <<>>

\* The Normalized Finding built from a rule-result's status, definition,
\* finding details and comments.
Finding(rule_def, result_status, finding_details, comments) ==
    [rule_id |-> rule_def.rule_id,
     vuln_id |-> rule_def.vuln_id,
     group_id |-> rule_def.group_id,
     group_title |-> rule_def.group_title,
     rule_title |-> rule_def.rule_title,
     severity |-> rule_def.severity,
     description |-> rule_def.description,
     check_content |-> rule_def.check_content,
     fix_text |-> rule_def.fix_text,
     rule_ver |-> rule_def.version,
     cci_ref |-> rule_def.cci_ref,
     status |-> status_map(result_status),
     finding_details |-> finding_details,
     comments |-> comments,
     nessus_result |-> result_status]

\* One iteration of `for rule_result in rule_results`.
MergeResult(rule_result, defs, ns) ==
    Finding(RuleDefOf(defs, get(rule_result, "idref", <<>>)),
            Lower(findtext_child(rule_result, QName(ns, S_result), S_unknown)),
            FindingDetails(CheckContentRef(find_desc(rule_result, QName(ns, S_check)), ns)),
            Comments(find_desc(rule_result, QName(ns, S_message))))

\* The rule-results the conversion walks.
RuleResults(test_result, ns) == findall_desc(test_result, QName(ns, S_rule_result))

\* What a call leaves behind when it raises.
Raised(what, looked, hit) ==
    [raised |-> what, results |-> <<>>, stig_id |-> <<>>, stig_title |-> <<>>,
     hostname |-> <<>>, ip_address |-> <<>>, via |-> "none", looked |-> looked,
     hit |-> hit, benchmark |-> 0, ns_benchmark |-> [xccdf |-> <<>>],
     ns_scan |-> [xccdf |-> <<>>], test_result |-> 0, rule_ids |-> {},
     rule_index |-> <<>>]

\* What a call returns: target_info, stig_info and results, and with them how
\* the benchmark was resolved (via, looked, hit), the position of the
\* benchmark element in its document, the alias table the lookups in the
\* benchmark are made with (ns_benchmark) and the one the lookups in the scan
\* document are made with after the resolution (ns_scan) -- the code has the
\* single variable ns for both --, the position of the located TestResult in
\* the scan document, the keys of the rule index and the rule index itself.
Returned(r, stig_id, test_result, defs, rule_results) ==
    [raised |-> "none",
     results |-> [j \in 1..Len(rule_results) |-> MergeResult(rule_results[j], defs, r.ns)],
     stig_id |-> stig_id,
     stig_title |-> findtext_child(r.benchmark, QName(r.ns, S_title), stig_id),
     hostname |-> findtext_desc(test_result, QName(r.ns, S_target), S_Unknown_Host),
     ip_address |-> findtext_desc(test_result, QName(r.ns, S_target_address), <<>>),
     via |-> r.via, looked |-> r.looked, hit |-> r.hit,
     benchmark |-> r.benchmark.i, ns_benchmark |-> r.ns, ns_scan |-> r.ns,
     test_result |-> test_result.i,
     rule_ids |-> DOMAIN defs, rule_index |-> defs]

\* From the located TestResult on: ValueError when there is none.
ConvertTestResult(r, test_result) ==
    IF test_result.i = 0 THEN Raised("ValueError", r.looked, r.hit)
    ELSE Returned(r, get(r.benchmark, "id", S_Unknown_STIG), test_result,
                  rule_definitions(r.benchmark, r.ns), RuleResults(test_result, r.ns))

\* From the resolved benchmark on.
ConvertResolved(root, r) ==
    IF r.raised # "none" THEN Raised(r.raised, r.looked, r.hit)
    ELSE ConvertTestResult(r, LocateTestResult(root, r.ns))

ConvertRoot(root, benchmark_bytes, cache) ==
    ConvertResolved(root, ResolveBenchmark(root, benchmark_bytes, cache))

\* parse_nessus_xccdf_results(xccdf_bytes, benchmark_bytes) run against the
\* cache content `cache`.
parse_nessus_xccdf_results(xccdf_bytes, benchmark_bytes, cache) ==
    IF ~WellFormed(xccdf_bytes) THEN Raised("ParseError", None, FALSE)
    ELSE ConvertRoot(Elem(fromstring(xccdf_bytes), 1), benchmark_bytes, cache)

\* ------------------------------------------------------------ load_benchmark_files
\* `name.endswith('xccdf.xml') or (name.endswith('.xml') and 'xccdf' in name.lower())`
IsBenchmarkName(name) ==
    EndsWith(name, S_xccdf_xml) \/ (EndsWith(name, S_dot_xml) /\ Contains(Lower(name), S_xccdf))

\* BENCHMARK_CACHE[filename] = content
Put(cache, filename, content) ==
    [k \in (DOMAIN cache) \cup {filename} |-> IF k = filename THEN content ELSE cache[k]]

\* A loop over a nested archive's entries that opens the archives it meets.
RECURSIVE LoadNestedEntries_Deep(_, _)
LoadNestedEntries_Deep(cache, entries) ==
    IF entries = <<>> THEN cache
    ELSE IF IsBenchmarkName(Head(entries).name)
    THEN IF Head(entries).readable
         THEN LoadNestedEntries_Deep(Put(cache, basename(Head(entries).name),
                                         Head(entries).data), Tail(entries))
         ELSE cache
    ELSE IF EndsWith(Head(entries).name, S_dot_zip) /\ Head(entries).data.ok
    THEN LoadNestedEntries_Deep(LoadNestedEntries_Deep(cache, Head(entries).data.entries),
                                Tail(entries))
    ELSE LoadNestedEntries_Deep(cache, Tail(entries))

\* The loop over a nested archive's entries.  A read that raises ends the
\* loop (the except of the nested try), keeping what was cached before it.
RECURSIVE LoadNestedEntries(_, _)
LoadNestedEntries(cache, entries) ==
    IF entries = <<>> THEN cache
    ELSE LET e == Head(entries)
         IN IF IsBenchmarkName(e.name)
            THEN IF e.readable
                 THEN LoadNestedEntries(Put(cache, basename(e.name), e.data), Tail(entries))
                 ELSE cache
            ELSE LoadNestedEntries(cache, Tail(entries))

\* The loop over a top-level archive's entries.  A benchmark entry whose read
\* raises ends the loop (the except of the outer try); a nested archive that
\* cannot be read or opened is passed over.
RECURSIVE LoadEntries(_, _)
LoadEntries(cache, entries) ==
    IF entries = <<>> THEN cache
    ELSE LET e == Head(entries)
         IN IF IsBenchmarkName(e.name)
            THEN IF e.readable
                 THEN LoadEntries(Put(cache, basename(e.name), e.data), Tail(entries))
                 ELSE cache
            ELSE IF EndsWith(e.name, S_dot_zip)
            THEN LoadEntries(IF e.readable /\ e.data.ok
                             THEN LoadNestedEntries(cache, e.data.entries)
                             ELSE cache,
                             Tail(entries))
            ELSE LoadEntries(cache, Tail(entries))

\* One iteration of `for zip_file in glob.glob(zip_pattern)`.
LoadZipFile(cache, zip_file) ==
    IF zip_file.ok THEN LoadEntries(cache, zip_file.entries) ELSE cache

\* One iteration of the loop over the loose files of the directory.
LoadLooseFile(cache, xml_file) ==
    IF xml_file.readable THEN Put(cache, basename(xml_file.name), xml_file.data) ELSE cache

\* One iteration of the loop over the files of the recursive search.
LoadRecursiveFile(cache, xml_file) ==
    IF basename(xml_file.name) \notin DOMAIN cache /\ xml_file.readable
    THEN Put(cache, basename(xml_file.name), xml_file.data)
    ELSE cache

\* ------------------------------------------------------------ discover_xccdf_files
\* The (filename, content) pairs of the .xml entries of one archive of
\* scan_results/.
RECURSIVE XmlEntries(_)
XmlEntries(entries) ==
    IF entries = <<>> THEN <<>>
    ELSE (IF EndsWith(Head(entries).name, S_dot_xml)
          THEN << [filename |-> basename(Head(entries).name), xml_content |-> Head(entries).data] >>
          ELSE <<>>) \o XmlEntries(Tail(entries))

\* The loose .xml files, then the .xml entries of every archive that opens.
RECURSIVE ZipScans(_)
ZipScans(zips) ==
    IF zips = <<>> THEN <<>>
    ELSE (IF Head(zips).ok THEN XmlEntries(Head(zips).entries) ELSE <<>>) \o ZipScans(Tail(zips))

discover_xccdf_files(scan_results) ==
    [k \in 1..Len(scan_results.loose) |->
       [filename |-> basename(scan_results.loose[k].name),
        xml_content |-> scan_results.loose[k].data]]
    \o ZipScans(scan_results.zips)

\* ------------------------------------------------------------ bounds and inputs
\* The most archives, loose files and recursively found files one run loads,
\* the most scan documents it discovers, and the sizes of the documents.
MaxZips == 2
MaxLoose == 1
MaxRecursive == 1
MaxFiles == 2
MaxGroups == 2
MaxRuleResults == 2

\* File and entry names.
N_A == <<"U","_","A","_","x","c","c","d","f",".","x","m","l">>
N_B == <<"U","_","B","_","X","C","C","D","F","-","B","e","n","c","h","m","a","r","k",".","x","m","l">>
N_C == <<"U","_","C","_","x","c","c","d","f",".","x","m","l">>
N_manual == <<"U","_","A","_","M","a","n","u","a","l",".","x","m","l">>
P_A == <<"U","_","A","_","S","T","I","G","/","U","_","A","_","x","c","c","d","f",".","x","m","l">>
P_nested == <<"U","_","A","_","x","c","c","d","f","_","S","T","I","G",".","z","i","p">>
P_nestedA == <<"V","1","R","1","/","U","_","A","_","x","c","c","d","f",".","x","m","l">>
P_deep == <<"o","l","d","e","r","/","d","e","e","p",".","z","i","p">>
P_bad == <<"b","r","o","k","e","n",".","z","i","p">>
P_subA == <<"a","r","c","h","i","v","e","/","2","0","2","5","/","U","_","A","_","x","c","c","d","f",".","x","m","l">>
P_subC == <<"a","r","c","h","i","v","e","/","U","_","C","_","x","c","c","d","f",".","x","m","l">>
H_A == <<"b","e","n","c","h","m","a","r","k","s","/","U","_","A","_","x","c","c","d","f",".","x","m","l">>
H_Z == <<"U","_","Z","_","x","c","c","d","f",".","x","m","l">>
N_scan1 == <<"h","o","s","t","1","_","s","c","a","n",".","x","m","l">>
N_scan2 == <<"e","x","p","o","r","t","s","/","h","o","s","t","2","_","s","c","a","n",".","x","m","l">>
N_notes == <<"n","o","t","e","s",".","t","x","t">>

\* No bytes: benchmark_bytes=None, or a slot not yet filled.
NoBytes == [kind |-> "none"]

\* The bytes of a benchmark file with MaxGroups groups, written in namespace
\* ns; mark tells the copies of a benchmark apart.
Bench(ns, mark) ==
    [kind |-> "benchmark", wf |-> TRUE, ns |-> ns, wrapped |-> FALSE,
     ngroups |-> MaxGroups, layout |-> "flat", mark |-> mark]

\* The bytes of a scan export.
Scan(shape, ns, trNs, hasBench, ngroups, href, k, n) ==
    [kind |-> "scan", wf |-> TRUE, shape |-> shape, ns |-> ns, trNs |-> trNs,
     hasBench |-> hasBench, ngroups |-> ngroups, layout |-> "flat", mark |-> <<"e">>,
     href |-> href, k |-> k, n |-> n]

\* Bytes that are not XML.
Malformed == [kind |-> "scan", wf |-> FALSE]

\* A file of a directory or an entry of an archive.
File(name, data, readable) == [name |-> name, data |-> data, readable |-> readable]
\* An archive: ok is whether zipfile.ZipFile opens it.
Zip(ok, entries) == [kind |-> "zip", ok |-> ok, entries |-> entries]

\* The archives of stig_benchmarks/: a plain package; another release of the
\* same file; a quarterly compilation (a nested package, itself holding an
\* archive, then a benchmark of its own); a package with a broken nested
\* archive and an entry whose read fails before a good one; a file that is no
\* archive.
Archives ==
    { Zip(TRUE, << File(P_A, Bench(XCCDF_1_1, <<"a">>), TRUE) >>),
      Zip(TRUE, << File(N_A, Bench(XCCDF_1_2, <<"b">>), TRUE),
                   File(N_manual, Bench(XCCDF_1_2, <<"m">>), TRUE) >>),
      Zip(TRUE, << File(P_nested,
                        Zip(TRUE, << File(P_nestedA, Bench(XCCDF_1_2, <<"c">>), TRUE),
                                     File(P_deep,
                                          Zip(TRUE, << File(N_C, Bench(XCCDF_1_1, <<"z">>), TRUE) >>),
                                          TRUE) >>),
                        TRUE),
                   File(N_B, Bench(<<>>, <<"d">>), TRUE) >>),
      Zip(TRUE, << File(P_bad, Zip(FALSE, <<>>), TRUE),
                   File(N_B, Bench(XCCDF_1_1, <<"u">>), FALSE),
                   File(N_A, Bench(XCCDF_1_1, <<"a">>), TRUE) >>),
      Zip(FALSE, <<>>) }

\* The loose benchmark files of stig_benchmarks/ and of its subdirectories.
LooseFiles == { File(N_A, Bench(<<>>, <<"l">>), TRUE),
                File(N_B, Bench(XCCDF_1_2, <<"u">>), FALSE) }
RecursiveFiles == { File(P_subA, Bench(XCCDF_1_2, <<"s">>), TRUE),
                    File(P_subC, Bench(XCCDF_1_1, <<"t">>), TRUE) } \cup LooseFiles

\* The scan documents of a run of main: not XML; a bare TestResult referring
\* to a benchmark file; a benchmark without TestResult; an all-in-one export.
MainScans ==
    << Malformed,
       Scan("TestResult", XCCDF_1_1, XCCDF_1_1, FALSE, 0, H_A, 1, MaxRuleResults),
       Bench(XCCDF_1_1, <<"a">>),
       Scan("Benchmark", XCCDF_1_2, XCCDF_1_2, TRUE, MaxGroups, H_A, 2, MaxRuleResults) >>

\* The contents of scan_results/: n loose files, the documents of MainScans
\* taken in turn from the k-th on, and possibly one archive holding a scan
\* and a text file, or a file that is no archive.
ScanResultsDirs ==
    { [loose |-> [j \in 1..n |-> File(Digit(j) \o N_scan1, MainScans[((k + j - 2) % Len(MainScans)) + 1], TRUE)],
       zips |-> z] :
        k \in 1..Len(MainScans), n \in 0..MaxFiles,
        z \in { <<>>,
                << Zip(TRUE, << File(N_scan2, MainScans[2], TRUE),
                                File(N_notes, Malformed, TRUE) >>) >>,
                << Zip(FALSE, <<>>) >> } }

\* The inputs of a call of parse_nessus_xccdf_results taken alone.
Hrefs == {None, <<>>, H_A, H_Z}

\* Every shape, root namespace, TestResult namespace, embedded benchmark and
\* reference, each with rule-results of kinds 1..MaxRuleResults.
MatrixScans ==
    { Scan("TestResult", ns, ns, FALSE, 0, href, 1, MaxRuleResults) :
        ns \in NsChoices, href \in Hrefs }
    \cup
    { Scan("Benchmark", ns, trNs, TRUE, g, href, 1, MaxRuleResults) :
        ns \in NsChoices, trNs \in NsChoices, g \in 0..MaxGroups, href \in Hrefs }
    \cup
    { Scan("wrapper", ns, trNs, TRUE, g, href, 1, MaxRuleResults) :
        ns \in NsChoices, trNs \in NsChoices, g \in 0..MaxGroups, href \in Hrefs }
    \cup
    { Scan("wrapper", ns, trNs, FALSE, 0, href, 1, MaxRuleResults) :
        ns \in NsChoices, trNs \in NsChoices, href \in Hrefs }

\* Every kind of rule-result, in documents of 0..MaxRuleResults rule-results.
StatusScans ==
    { Scan("TestResult", ns, ns, FALSE, 0, None, k, n) :
        ns \in {<<>>, XCCDF_1_1}, k \in 1..Len(ResultTexts), n \in 0..MaxRuleResults }
    \cup
    { Scan("Benchmark", XCCDF_1_2, XCCDF_1_2, TRUE, MaxGroups, None, k, MaxRuleResults) :
        k \in 1..Len(ResultTexts) }

\* Exports whose root is a <TestResults> collection.
CollectionScans ==
    { Scan("collection", ns, trNs, FALSE, 0, href, 1, MaxRuleResults) :
        ns \in NsChoices, trNs \in NsChoices, href \in {None, H_A} }

\* Exports whose embedded benchmark repeats a rule id: under sibling groups
\* ("dup") and under a group and the group nested in it ("nested").
RepeatScans ==
    { [Scan(shape, XCCDF_1_2, XCCDF_1_2, TRUE, MaxGroups, None, 3, MaxRuleResults)
         EXCEPT !.layout = layout] :
        shape \in {"Benchmark", "wrapper"}, layout \in {"dup", "nested"} }

\* Exports whose embedded benchmark holds only empty elements, with a
\* rule-result that has no idref and one that has no result child.
HollowScans ==
    { [Scan(shape, XCCDF_1_2, XCCDF_1_2, TRUE, MaxGroups, None, 12, MaxRuleResults)
         EXCEPT !.layout = "hollow"] : shape \in {"Benchmark", "wrapper"} }

ParseScans ==
    MatrixScans \cup StatusScans \cup CollectionScans \cup RepeatScans \cup HollowScans
    \cup {Malformed} \cup {Bench(ns, <<"a">>) : ns \in NsChoices \cup {D_ns_results}}

\* The cache contents a call may meet: empty, or the referenced file in each
\* namespace, with nested groups, wrapped in another root, or not XML.
ParseCaches ==
    { [k \in {} |-> NoBytes] }
    \cup { [k \in {N_A} |-> Bench(ns, <<"c">>)] : ns \in NsChoices }
    \cup { [k \in {N_A} |-> [Bench(XCCDF_1_1, <<"c">>) EXCEPT !.layout = "nested"]],
           [k \in {N_A} |-> [Bench(XCCDF_1_2, <<"c">>) EXCEPT !.wrapped = TRUE]],
           [k \in {N_A} |-> [Bench(XCCDF_1_2, <<"c">>) EXCEPT !.wf = FALSE]] }

ParseExplicit == { NoBytes, Bench(XCCDF_1_2, <<"x">>), Bench(<<>>, <<"x">>) }

\* ------------------------------------------------------------ state
VARIABLES
    pc,                 \* where main stands
    BENCHMARK_CACHE,    \* the module-level cache: filename -> bytes
    n_loaded,           \* how many sources the current loading loop has taken
    loaded,             \* zip_file / xml_file: the source last taken (a local of
                        \* load_benchmark_files)
    xccdf_files,        \* what discover_xccdf_files returned
    idx,                \* the position of main's loop in xccdf_files
    processed_count, error_count,
    call,               \* the arguments of the last call of the parser
    ret,                \* what that call returned or raised
    written             \* the checklists written, in order

vars == <<pc, BENCHMARK_CACHE, n_loaded, loaded, xccdf_files, idx,
          processed_count, error_count, call, ret, written>>

NoCall == [xccdf_bytes |-> NoBytes, benchmark_bytes |-> NoBytes]
NoRet == Raised("pending", None, FALSE)

\* ------------------------------------------------------------ main
Init ==
    /\ pc = "load_zips"
    /\ BENCHMARK_CACHE = [k \in {} |-> NoBytes]
    /\ n_loaded = 0
    /\ loaded = NoBytes
    /\ xccdf_files = <<>>
    /\ idx = 1
    /\ processed_count = 0 /\ error_count = 0
    /\ call = NoCall
    /\ ret = NoRet
    /\ written = <<>>

\* load_benchmark_files, first loop: the next archive glob returns.
LoadZip ==
    /\ pc = "load_zips" /\ n_loaded < MaxZips
    /\ \E zip_file \in Archives :
         /\ BENCHMARK_CACHE' = LoadZipFile(BENCHMARK_CACHE, zip_file)
         /\ loaded' = zip_file
    /\ n_loaded' = n_loaded + 1
    /\ UNCHANGED <<pc, xccdf_files, idx, processed_count, error_count,
                   call, ret, written>>

\* The archives are exhausted.
EndZips ==
    /\ pc = "load_zips"
    /\ pc' = "load_loose"
    /\ n_loaded' = 0
    /\ UNCHANGED <<BENCHMARK_CACHE, loaded, xccdf_files, idx,
                   processed_count, error_count, call, ret, written>>

\* Second loop: the next loose file of the directory.
LoadLoose ==
    /\ pc = "load_loose" /\ n_loaded < MaxLoose
    /\ \E xml_file \in LooseFiles :
         /\ BENCHMARK_CACHE' = LoadLooseFile(BENCHMARK_CACHE, xml_file)
         /\ loaded' = xml_file
    /\ n_loaded' = n_loaded + 1
    /\ UNCHANGED <<pc, xccdf_files, idx, processed_count, error_count,
                   call, ret, written>>

EndLoose ==
    /\ pc = "load_loose"
    /\ pc' = "load_recursive"
    /\ n_loaded' = 0
    /\ UNCHANGED <<BENCHMARK_CACHE, loaded, xccdf_files, idx,
                   processed_count, error_count, call, ret, written>>

\* Third loop: the next file of the recursive search.
LoadRecursive ==
    /\ pc = "load_recursive" /\ n_loaded < MaxRecursive
    /\ \E xml_file \in RecursiveFiles :
         /\ BENCHMARK_CACHE' = LoadRecursiveFile(BENCHMARK_CACHE, xml_file)
         /\ loaded' = xml_file
    /\ n_loaded' = n_loaded + 1
    /\ UNCHANGED <<pc, xccdf_files, idx, processed_count, error_count,
                   call, ret, written>>

\* load_benchmark_files returns; main discovers the scan documents and
\* returns at once when there are none.
Discover ==
    /\ pc = "load_recursive"
    /\ \E scan_results \in ScanResultsDirs :
         /\ xccdf_files' = discover_xccdf_files(scan_results)
         /\ pc' = IF xccdf_files' = <<>> THEN "done" ELSE "process"
    /\ n_loaded' = 0
    /\ loaded' = NoBytes
    /\ UNCHANGED <<BENCHMARK_CACHE, idx,
                   processed_count, error_count, call, ret, written>>

\* An iteration without the except clauses: what the parser raises ends the
\* run.
ProcessFile_Abort ==
    /\ pc = "process" /\ idx <= Len(xccdf_files)
    /\ call' = [xccdf_bytes |-> xccdf_files[idx].xml_content, benchmark_bytes |-> NoBytes]
    /\ ret' = parse_nessus_xccdf_results(xccdf_files[idx].xml_content, NoBytes, BENCHMARK_CACHE)
    /\ IF ret'.raised = "none"
       THEN /\ written' = Append(written, [hostname |-> ret'.hostname,
                                           stig_id |-> ret'.stig_id,
                                           size |-> Len(ret'.results)])
            /\ processed_count' = processed_count + 1
            /\ pc' = pc
       ELSE /\ written' = written
            /\ processed_count' = processed_count
            /\ pc' = "done"
    /\ idx' = idx + 1
    /\ UNCHANGED <<error_count, BENCHMARK_CACHE, n_loaded, loaded, xccdf_files>>

\* An iteration whose parser remembers, under the name it looked up in
\* vain, the document it was given.
ProcessFile_Caching ==
    /\ pc = "process" /\ idx <= Len(xccdf_files)
    /\ call' = [xccdf_bytes |-> xccdf_files[idx].xml_content, benchmark_bytes |-> NoBytes]
    /\ ret' = parse_nessus_xccdf_results(xccdf_files[idx].xml_content, NoBytes, BENCHMARK_CACHE)
    /\ BENCHMARK_CACHE' = IF ret'.looked # None /\ ~ret'.hit
                          THEN Put(BENCHMARK_CACHE, ret'.looked, xccdf_files[idx].xml_content)
                          ELSE BENCHMARK_CACHE
    /\ \E write_ok \in BOOLEAN :
         IF ret'.raised = "none" /\ write_ok
         THEN /\ written' = Append(written, [hostname |-> ret'.hostname,
                                             stig_id |-> ret'.stig_id,
                                             size |-> Len(ret'.results)])
              /\ processed_count' = processed_count + 1
              /\ error_count' = error_count
         ELSE /\ written' = written
              /\ processed_count' = processed_count
              /\ error_count' = error_count + 1
    /\ idx' = idx + 1
    /\ UNCHANGED <<pc, n_loaded, loaded, xccdf_files>>

\* One iteration of `for filename, xml_content in xccdf_files`: the document
\* is parsed and its checklist written; whatever is raised on the way is
\* caught and counted.  write_ok: whether the output file could be written.
ProcessFile ==
    /\ pc = "process" /\ idx <= Len(xccdf_files)
    /\ call' = [xccdf_bytes |-> xccdf_files[idx].xml_content, benchmark_bytes |-> NoBytes]
    /\ ret' = parse_nessus_xccdf_results(xccdf_files[idx].xml_content, NoBytes, BENCHMARK_CACHE)
    /\ \E write_ok \in BOOLEAN :
         IF ret'.raised = "none" /\ write_ok
         THEN /\ written' = Append(written, [hostname |-> ret'.hostname,
                                             stig_id |-> ret'.stig_id,
                                             size |-> Len(ret'.results)])
              /\ processed_count' = processed_count + 1
              /\ error_count' = error_count
         ELSE /\ written' = written
              /\ processed_count' = processed_count
              /\ error_count' = error_count + 1
    /\ idx' = idx + 1
    /\ UNCHANGED <<pc, BENCHMARK_CACHE, n_loaded, loaded, xccdf_files>>

\* The loop is over: the summary is printed.
Finish ==
    /\ pc = "process" /\ idx > Len(xccdf_files)
    /\ pc' = "done"
    /\ UNCHANGED <<BENCHMARK_CACHE, n_loaded, loaded, xccdf_files, idx,
                   processed_count, error_count, call, ret, written>>

Next == LoadZip \/ EndZips \/ LoadLoose \/ EndLoose \/ LoadRecursive \/ Discover
        \/ ProcessFile \/ Finish

Spec == Init /\ [][Next]_vars

\* ------------------------------------------------------------ one call of the parser
\* A call of parse_nessus_xccdf_results on its own: any document of
\* ParseScans, with or without explicit benchmark bytes, against any cache
\* content of ParseCaches.
InitParse ==
    /\ pc = "call"
    /\ BENCHMARK_CACHE \in ParseCaches
    /\ call \in [xccdf_bytes : ParseScans, benchmark_bytes : ParseExplicit]
    /\ ret = NoRet
    /\ n_loaded = 0
    /\ loaded = NoBytes
    /\ xccdf_files = <<>>
    /\ idx = 1
    /\ processed_count = 0 /\ error_count = 0
    /\ written = <<>>

ParseCall ==
    /\ pc = "call"
    /\ ret' = parse_nessus_xccdf_results(call.xccdf_bytes, call.benchmark_bytes, BENCHMARK_CACHE)
    /\ pc' = "returned"
    /\ UNCHANGED <<BENCHMARK_CACHE, n_loaded, loaded, xccdf_files, idx,
                   processed_count, error_count, call, written>>

NextParse == ParseCall

SpecParse == InitParse /\ [][NextParse]_vars

\* ------------------------------------------------------------ what the documents say
\* The documents of a call as a reader of the XML sees them: elements are
\* told by their local name, whatever namespace they are written in.
LocalName(t) ==
    IF StartsWith(t, S_lbrace) THEN SubSeq(t, Len(SplitFirst(t, S_rbrace)) + 2, Len(t)) ELSE t

\* The positions, in document order, of the elements called `local` below
\* position `under` (0: anywhere in the document).
NamedUnder(d, under, local) ==
    {j \in 1..Len(d) : (under = 0 \/ IsAncestor(d, under, j)) /\ LocalName(d[j].tag) = local}
NamedChildren(d, p, local) ==
    {j \in 1..Len(d) : d[j].parent = p /\ LocalName(d[j].tag) = local}
Lowest(S) == CHOOSE x \in S : \A y \in S : x <= y

\* The namespace the root of a document is written in (<<>>: none).
DeclaredNs(bytes) == bytes.ns

\* The Benchmark elements of d that hold at least one Group.
BenchmarksWithGroups(d) ==
    {b \in NamedUnder(d, 0, S_Benchmark) : NamedUnder(d, b, S_Group) # {}}

\* The href of the benchmark reference below element tr ('' when none).
HrefUnder(d, tr) ==
    IF \E j \in NamedUnder(d, tr, S_benchmark) : "href" \in DOMAIN d[j].attrib
    THEN d[Lowest({j \in NamedUnder(d, tr, S_benchmark) : "href" \in DOMAIN d[j].attrib})].attrib.href
    ELSE <<>>

\* The idref of the rule-result at position j ('' when it has none).
IdrefAt(d, j) == IF "idref" \in DOMAIN d[j].attrib THEN d[j].attrib.idref ELSE <<>>

\* The result texts of ResultTexts in lower case, as a reader writes them.
LowerCased(t) ==
    IF t = D_FAIL THEN S_fail ELSE IF t = D_Pass THEN S_pass
    ELSE IF t = None THEN <<>> ELSE t

\* The scanner's word for the rule-result at position rr: the lower-cased
\* text of its result child, Absent when it has no result child.
WordAt(d, rr) ==
    IF NamedChildren(d, rr, S_result) = {} THEN Absent
    ELSE LowerCased(d[Lowest(NamedChildren(d, rr, S_result))].text)

\* The table of normalized statuses as the specification gives it.
TableStatus(word) ==
    IF word \in {S_pass, S_fixed} THEN S_not_a_finding
    ELSE IF word \in {S_fail, S_error} THEN S_open
    ELSE IF word = S_notapplicable THEN S_not_applicable
    ELSE S_not_reviewed
FourStatuses == {S_open, S_not_a_finding, S_not_applicable, S_not_reviewed}

\* The text of the first non-empty check-content of the rule called id in
\* document d ('' when there is none).
CheckContentsOf(d, id) ==
    {c \in NamedUnder(d, 0, S_check_content) :
        /\ Truthy(d[c].text)
        /\ \E r \in NamedUnder(d, 0, S_Rule) :
             "id" \in DOMAIN d[r].attrib /\ d[r].attrib.id = id /\ IsAncestor(d, r, c)}
CheckContentOf(d, id) ==
    IF CheckContentsOf(d, id) = {} THEN <<>> ELSE d[Lowest(CheckContentsOf(d, id))].text

\* A finding that carries no rule metadata but the raw idref.
IsPlaceholder(f, idref) ==
    /\ f.rule_id = idref /\ f.vuln_id = idref /\ f.group_id = idref /\ f.rule_title = idref
    /\ f.severity = S_medium
    /\ f.group_title = <<>> /\ f.description = <<>> /\ f.check_content = <<>>
    /\ f.fix_text = <<>> /\ f.rule_ver = <<>> /\ f.cci_ref = <<>>

\* The call at hand: its scan document, whether it returned, the
\* rule-results a reader finds under the located TestResult, the external
\* benchmark document it loaded.
ScanTree == fromstring(call.xccdf_bytes)
Converted == ret.raised = "none"
RuleResultsInScan == SortedSeq(NamedUnder(ScanTree, ret.test_result, S_rule_result))
External == ret.raised = "none" /\ ret.via \in {"cache", "explicit"}
ExternalBytes == IF ret.via = "cache" THEN BENCHMARK_CACHE[ret.looked] ELSE call.benchmark_bytes

\* The scan document is written in one namespace throughout, the one its
\* root declares.
InOneNamespace ==
    /\ DeclaredNs(call.xccdf_bytes) # <<>>
    /\ \A j \in 1..Len(ScanTree) :
         StartsWith(ScanTree[j].tag, QTag(DeclaredNs(call.xccdf_bytes), <<>>))

\* The scan document of the call is well-formed and has a TestResult.
Parseable ==
    /\ call.xccdf_bytes.kind # "none" /\ WellFormed(call.xccdf_bytes)
    /\ NamedUnder(ScanTree, 0, S_TestResult) # {}
FirstTestResult == Lowest(NamedUnder(ScanTree, 0, S_TestResult))

\* The cache holds a file under the base filename of the scan's benchmark href.
CacheHoldsReference ==
    /\ HrefUnder(ScanTree, FirstTestResult) # <<>>
    /\ basename(HrefUnder(ScanTree, FirstTestResult)) \in DOMAIN BENCHMARK_CACHE
ReferencedBytes == BENCHMARK_CACHE[basename(HrefUnder(ScanTree, FirstTestResult))]

\* No benchmark can be resolved for the call at hand.
Unresolvable ==
    /\ Parseable
    /\ BenchmarksWithGroups(ScanTree) = {}
    /\ ~CacheHoldsReference
    /\ call.benchmark_bytes.kind = "none"

\* ------------------------------------------------------------ claims
\* C1: for every scan document in which a TestResult is located, the call
\* returns exactly one finding per rule-result element under that TestResult,
\* in document order (the j-th finding is about the j-th rule-result),
\* however the benchmark was come by.  Stated for the scan documents written
\* in one namespace throughout, where it already fails.
C1_OneFindingPerRuleResult ==
    (Converted /\ InOneNamespace) =>
        /\ Len(ret.results) = Len(RuleResultsInScan)
        /\ \A j \in 1..Len(RuleResultsInScan) :
             j <= Len(ret.results)
             => ret.results[j].rule_id = IdrefAt(ScanTree, RuleResultsInScan[j])

\* C2: the status of every finding is the image of the lower-cased result
\* text of its rule-result under the fixed table (not_reviewed for a missing
\* result element and for any other string), it is one of the four statuses,
\* and the finding keeps the lower-cased scanner status itself.
C2_StatusTable ==
    Converted =>
        \A j \in 1..Len(ret.results) :
            /\ j <= Len(RuleResultsInScan)
            /\ ret.results[j].status = TableStatus(WordAt(ScanTree, RuleResultsInScan[j]))
            /\ ret.results[j].status \in FourStatuses
            /\ WordAt(ScanTree, RuleResultsInScan[j]) # Absent
               => ret.results[j].nessus_result = WordAt(ScanTree, RuleResultsInScan[j])

\* A conversion met the result text "FAIL" and gave a finding that is open
\* and keeps the word "fail".
C2_Witness ==
    /\ Converted
    /\ \E j \in 1..Len(ret.results) :
         /\ \E c \in NamedChildren(ScanTree, RuleResultsInScan[j], S_result) :
              ScanTree[c].text = D_FAIL
         /\ ret.results[j].status = S_open
         /\ ret.results[j].nessus_result = S_fail

\* C3: every rule-result whose idref is not a key of the rule index has its
\* finding emitted, and that finding carries the raw idref as rule, vuln and
\* group identifier and as title, severity medium, and empty texts.  Stated
\* for the scan documents written in one namespace throughout.
C3_PlaceholderEmitted ==
    (Converted /\ InOneNamespace) =>
        \A j \in 1..Len(RuleResultsInScan) :
            IdrefAt(ScanTree, RuleResultsInScan[j]) \notin ret.rule_ids
            => /\ j <= Len(ret.results)
               /\ IsPlaceholder(ret.results[j], IdrefAt(ScanTree, RuleResultsInScan[j]))

\* C4: when the scan document carries a Benchmark with at least one Group
\* (its root included), the conversion uses that Benchmark under the scan
\* document's own namespace and reads no entry of the cache.  Stated for the
\* scan documents written in one namespace throughout.
C4_EmbeddedBenchmarkUsed ==
    (Converted /\ InOneNamespace /\ BenchmarksWithGroups(ScanTree) # {}) =>
        /\ ret.via \in {"embedded", "root"}
        /\ ret.benchmark \in BenchmarksWithGroups(ScanTree)
        /\ ~ret.hit
        /\ ret.ns_benchmark.xccdf = DeclaredNs(call.xccdf_bytes)

\* C5: once a filename is cached its bytes are never replaced: no step of
\* the cache population changes the bytes of a filename already cached.
C5_FirstFoundWins ==
    [][\A fn \in DOMAIN BENCHMARK_CACHE :
          fn \in DOMAIN BENCHMARK_CACHE' /\ BENCHMARK_CACHE'[fn] = BENCHMARK_CACHE[fn]]_vars

\* C6 as stated: when no benchmark can be resolved the call does not raise,
\* takes the scan document's root as benchmark, and every finding carries
\* placeholder rule metadata.
C6_FallsBackToRoot ==
    (pc # "call" /\ ret.raised # "pending" /\ Unresolvable) =>
        /\ Converted
        /\ ret.via = "root" /\ ret.benchmark = 1
        /\ \A j \in 1..Len(ret.results) :
             IsPlaceholder(ret.results[j], ret.results[j].rule_id)

\* C6 amended: when no benchmark can be resolved the call does not raise; it
\* keeps the group-less Benchmark element it found embedded under the scan's
\* root, and takes the scan document's root when it found none; the rule
\* index is empty and every finding carries placeholder rule metadata.
C6_KeepsEmbeddedOrRoot ==
    (pc # "call" /\ ret.raised # "pending" /\ Unresolvable) =>
        /\ Converted
        /\ \/ ret.via = "root" /\ ret.benchmark = 1
           \/ /\ ret.via = "embedded_empty"
              /\ ret.benchmark \in NamedUnder(ScanTree, 1, S_Benchmark)
              /\ ret.benchmark \notin BenchmarksWithGroups(ScanTree)
        /\ ret.rule_ids = {}
        /\ \A j \in 1..Len(ret.results) :
             IsPlaceholder(ret.results[j], ret.results[j].rule_id)

\* No benchmark could be resolved and the conversion went on with the
\* group-less embedded Benchmark, giving placeholder findings.
C6_Witness ==
    /\ pc # "call" /\ Unresolvable /\ Converted
    /\ ret.via = "embedded_empty"
    /\ Len(ret.results) > 0
    /\ HrefUnder(ScanTree, FirstTestResult) # <<>>

\* C7: for a scan document without embedded benchmark whose TestResult
\* names a benchmark file the cache holds, every rule-result whose idref
\* names a rule of that file with non-empty check-content has a finding with
\* that check-content, whatever the two namespaces.  Stated for the scan
\* documents written in XCCDF 1.1 or 1.2 throughout.
C7_CheckContentFromCache ==
    (Converted /\ InOneNamespace /\ NamedUnder(ScanTree, 0, S_Benchmark) = {} /\ CacheHoldsReference
       /\ WellFormed(ReferencedBytes)) =>
        \A j \in 1..Len(RuleResultsInScan) :
            CheckContentOf(fromstring(ReferencedBytes),
                           IdrefAt(ScanTree, RuleResultsInScan[j])) # <<>>
            => /\ j <= Len(ret.results)
               /\ ret.results[j].check_content =
                    CheckContentOf(fromstring(ReferencedBytes),
                                   IdrefAt(ScanTree, RuleResultsInScan[j]))

\* C8: after an external benchmark is loaded, the lookups in the benchmark
\* use the namespace of the benchmark's root and the lookups in the scan
\* document still use the namespace of the scan's root (both roots carrying
\* a namespace).
C8_NamespacePerDocument ==
    (External /\ DeclaredNs(call.xccdf_bytes) # <<>> /\ DeclaredNs(ExternalBytes) # <<>>) =>
        /\ ret.ns_benchmark.xccdf = DeclaredNs(ExternalBytes)
        /\ ret.ns_scan.xccdf = DeclaredNs(call.xccdf_bytes)

\* C9: the namespace context derived from a document's root maps the alias
\* to the root's namespace when it has one and is the empty table when it
\* has none, for the scan document and for a loaded external benchmark.
C9_DerivedNamespace ==
    /\ (Converted /\ ~External) =>
          IF DeclaredNs(call.xccdf_bytes) # <<>>
          THEN ret.ns_scan = [xccdf |-> DeclaredNs(call.xccdf_bytes)]
          ELSE DOMAIN ret.ns_scan = {}
    /\ External =>
          IF DeclaredNs(ExternalBytes) # <<>>
          THEN ret.ns_benchmark = [xccdf |-> DeclaredNs(ExternalBytes)]
          ELSE DOMAIN ret.ns_benchmark = {}

\* C10: in main's loop every discovered document is attempted once and in
\* turn, each attempt is counted either as processed or as an error, a
\* failure does not stop the loop, and at the end processed_count +
\* error_count is the number of discovered documents.
C10_EveryDocumentCounted ==
    /\ pc \in {"process", "done"} =>
         /\ processed_count + error_count = idx - 1
         /\ idx <= Len(xccdf_files) + 1
         /\ processed_count = Len(written)
         /\ idx > 1 => call.xccdf_bytes = xccdf_files[idx - 1].xml_content
    /\ pc = "done" => processed_count + error_count = Len(xccdf_files)

\* A run ended in which a document failed and a later one was processed.
C10_Witness ==
    /\ pc = "done" /\ Len(xccdf_files) >= 2
    /\ error_count >= 1 /\ processed_count >= 1
    /\ ret.raised = "none"
    /\ processed_count + error_count = Len(xccdf_files)

\* The positions below the root of d of the elements with tag t, of the
\* children of the root with tag t, and the positions anywhere in d of the
\* elements whose local name, or whose whole tag, contains `word`.
TaggedBelowRoot(d, t) == {j \in 2..Len(d) : d[j].tag = t}
TaggedChildOfRoot(d, t) == {j \in 2..Len(d) : d[j].parent = 1 /\ d[j].tag = t}
LocalNameHas(d, word) == {j \in 1..Len(d) : Contains(LocalName(d[j].tag), word)}
TagHas(d, word) == {j \in 1..Len(d) : Contains(d[j].tag, word)}
LowestOr0(S) == IF S = {} THEN 0 ELSE Lowest(S)

\* The first non-empty set of a chain of candidate sets gives its first
\* element in document order; 0 when all are empty.
RECURSIVE FirstOfChain(_)
FirstOfChain(chain) ==
    IF chain = <<>> THEN 0
    ELSE IF Head(chain) # {} THEN Lowest(Head(chain))
    ELSE FirstOfChain(Tail(chain))

\* The chain as the specification lists it, under the alias uri.
ListedChain(d, uri) ==
    << TaggedBelowRoot(d, QTag(uri, S_TestResult)),
       TaggedChildOfRoot(d, QTag(uri, S_TestResult)),
       TaggedBelowRoot(d, QTag(XCCDF_1_1, S_TestResult)),
       TaggedBelowRoot(d, QTag(XCCDF_1_2, S_TestResult)),
       LocalNameHas(d, S_TestResult) >>

\* The chain with the root test first and the last resort on the whole tag.
RootFirstChain(d, uri) ==
    << {j \in {1} : Contains(d[1].tag, S_TestResult)},
       TaggedBelowRoot(d, QTag(uri, S_TestResult)),
       TaggedBelowRoot(d, QTag(XCCDF_1_1, S_TestResult)),
       TaggedBelowRoot(d, QTag(XCCDF_1_2, S_TestResult)),
       TaggedChildOfRoot(d, QTag(uri, S_TestResult)),
       TagHas(d, S_TestResult) >>

\* The call went as far as locating the TestResult.
Located == ret.raised \in {"none", "ValueError"}

\* C11 as stated: the call raises "No TestResult found" exactly when no
\* strategy of the listed chain matches (qualified anywhere, qualified direct
\* child, the two fixed namespaces, local name containing TestResult), and
\* otherwise uses the first match of the first strategy that matches.
C11_ListedChain ==
    Located =>
        /\ ret.raised = "ValueError" <=> LocalNameHas(ScanTree, S_TestResult) = {}
        /\ Converted
           => ret.test_result = FirstOfChain(ListedChain(ScanTree, ret.ns_scan.xccdf))

\* C11 amended: the chain starts with the root itself when its tag contains
\* "TestResult", and its last resort takes the first element whose tag,
\* namespace included, contains "TestResult"; the call raises exactly when
\* no element's tag contains "TestResult", and otherwise uses the first
\* match of the first strategy that matches.
C11_RootFirstChain ==
    Located =>
        /\ ret.raised = "ValueError" <=> TagHas(ScanTree, S_TestResult) = {}
        /\ Converted
           => ret.test_result = FirstOfChain(RootFirstChain(ScanTree, ret.ns_scan.xccdf))

\* A conversion took the <TestResults> root as TestResult although a
\* qualified TestResult lies below it.
C11_Witness ==
    /\ Converted
    /\ ret.test_result = 1
    /\ LocalName(ScanTree[1].tag) = D_TestResults
    /\ TaggedBelowRoot(ScanTree, QTag(ret.ns_scan.xccdf, S_TestResult)) # {}
    /\ Len(ret.results) > 0

\* ------------------------------------------------------------ what the archives hold
\* An entry that is an archive, an entry that is a benchmark file.
IsArchive(e) == e.data.kind = "zip"
IsBenchmarkFile(e) == e.data.kind = "benchmark"

\* The entries of the archives that are entries of archive z (one level
\* down), and of the archives that are entries of those (two levels down).
RECURSIVE EntriesOfArchivesIn(_)
EntriesOfArchivesIn(entries) ==
    IF entries = <<>> THEN <<>>
    ELSE (IF IsArchive(Head(entries)) THEN Head(entries).data.entries ELSE <<>>)
         \o EntriesOfArchivesIn(Tail(entries))
OneLevelDown(z) == EntriesOfArchivesIn(z.entries)
TwoLevelsDown(z) == EntriesOfArchivesIn(OneLevelDown(z))

\* Every archive in z opens and every entry in it can be read, down to the
\* second level.
AllReadable(entries) ==
    \A i \in 1..Len(entries) :
        entries[i].readable /\ (IsArchive(entries[i]) => entries[i].data.ok)
Sound(z) ==
    /\ z.ok /\ AllReadable(z.entries)
    /\ AllReadable(OneLevelDown(z)) /\ AllReadable(TwoLevelsDown(z))

\* The archive the first loop of load_benchmark_files has just taken.
ArchiveLoaded == pc = "load_zips" /\ n_loaded > 0

\* The benchmark files z holds at its top level or one level down, by name.
NamesAbove(z) ==
    {basename(z.entries[i].name) : i \in {k \in 1..Len(z.entries) : IsBenchmarkFile(z.entries[k])}}
    \cup {basename(OneLevelDown(z)[i].name) :
            i \in {k \in 1..Len(OneLevelDown(z)) : IsBenchmarkFile(OneLevelDown(z)[k])}}

\* C12: after an archive whose reads all succeed was taken, a benchmark file
\* one level down is cached under its base filename (with its own bytes when
\* the archive holds no other file of that name); a benchmark file two
\* levels down is not cached from there (it is cached, if at all, with other
\* bytes, and not at all when nothing else put its name there); and no cache
\* entry is an archive.
C12_OneLevelOfNesting ==
    /\ \A fn \in DOMAIN BENCHMARK_CACHE : BENCHMARK_CACHE[fn].kind # "zip"
    /\ (ArchiveLoaded /\ Sound(loaded)) =>
         /\ \A i \in 1..Len(OneLevelDown(loaded)) :
              IsBenchmarkFile(OneLevelDown(loaded)[i]) =>
                /\ basename(OneLevelDown(loaded)[i].name) \in DOMAIN BENCHMARK_CACHE
                /\ ( /\ Cardinality({k \in 1..Len(OneLevelDown(loaded)) :
                           basename(OneLevelDown(loaded)[k].name)
                             = basename(OneLevelDown(loaded)[i].name)}) = 1
                     /\ (\A k \in 1..Len(loaded.entries) :
                           basename(loaded.entries[k].name)
                             # basename(OneLevelDown(loaded)[i].name)) )
                   => BENCHMARK_CACHE[basename(OneLevelDown(loaded)[i].name)]
                        = OneLevelDown(loaded)[i].data
         /\ \A i \in 1..Len(TwoLevelsDown(loaded)) :
              IsBenchmarkFile(TwoLevelsDown(loaded)[i]) =>
                /\ basename(TwoLevelsDown(loaded)[i].name) \in DOMAIN BENCHMARK_CACHE
                   => BENCHMARK_CACHE[basename(TwoLevelsDown(loaded)[i].name)]
                        # TwoLevelsDown(loaded)[i].data
                /\ (n_loaded = 1 /\ basename(TwoLevelsDown(loaded)[i].name) \notin NamesAbove(loaded))
                   => basename(TwoLevelsDown(loaded)[i].name) \notin DOMAIN BENCHMARK_CACHE

\* The quarterly compilation was taken: the benchmark of its nested package
\* is cached, the one of the archive inside that package is not.
C12_Witness ==
    /\ ArchiveLoaded /\ Sound(loaded) /\ n_loaded = 1
    /\ \E i \in 1..Len(OneLevelDown(loaded)) :
         /\ IsBenchmarkFile(OneLevelDown(loaded)[i])
         /\ BENCHMARK_CACHE[basename(OneLevelDown(loaded)[i].name)] = OneLevelDown(loaded)[i].data
    /\ \E i \in 1..Len(TwoLevelsDown(loaded)) :
         /\ IsBenchmarkFile(TwoLevelsDown(loaded)[i])
         /\ basename(TwoLevelsDown(loaded)[i].name) \notin DOMAIN BENCHMARK_CACHE
    /\ \E i \in 1..Len(loaded.entries) :
         IsArchive(loaded.entries[i]) /\ Contains(Lower(loaded.entries[i].name), S_xccdf)

\* Reading entry e fails: the entry cannot be read, or it is an archive that
\* does not open.
ReadFails(e) == ~e.readable \/ (IsArchive(e) /\ ~e.data.ok)

\* C13: a read error on one entry of an archive does not abort its sibling
\* entries: after the archive was taken, every readable benchmark file of
\* its top level that comes after a failing entry is cached under its base
\* filename.
C13_SiblingsSurviveReadError ==
    (ArchiveLoaded /\ loaded.ok) =>
        \A i \in 1..Len(loaded.entries) :
            ( /\ IsBenchmarkFile(loaded.entries[i]) /\ loaded.entries[i].readable
              /\ \E j \in 1..(i - 1) : ReadFails(loaded.entries[j]) )
            => basename(loaded.entries[i].name) \in DOMAIN BENCHMARK_CACHE

\* C14: a rule-result under the located TestResult that the qualified search
\* under the alias table in force does not match, but that is written in
\* XCCDF 1.1 or 1.2 or without namespace, still has its finding, with the
\* status its result child gives.
C14_RuleResultFallback ==
    Converted =>
        \A j \in 1..Len(RuleResultsInScan) :
            ScanTree[RuleResultsInScan[j]].tag # QTag(ret.ns_scan.xccdf, S_rule_result)
            => /\ j <= Len(ret.results)
               /\ ret.results[j].status
                    = TableStatus(WordAt(ScanTree, RuleResultsInScan[j]))

\* ------------------------------------------------------------ what the benchmark says
\* The document the resolved benchmark element lives in.
BenchmarkTreeOfCall == IF External THEN fromstring(ExternalBytes) ELSE ScanTree

Highest(S) == CHOOSE x \in S : \A y \in S : y <= x

\* The rules called id below position g of d, and the groups below the
\* benchmark element b that hold such a rule, at any depth.
RulesCalled(d, g, id) ==
    {r \in NamedUnder(d, g, S_Rule) : "id" \in DOMAIN d[r].attrib /\ d[r].attrib.id = id}
GroupsHolding(d, b, id) ==
    {g \in NamedUnder(d, b, S_Group) : RulesCalled(d, g, id) # {}}

\* The text of the first child called `local` of the element at p ('' when
\* there is none or it has no text), and an attribute with its default.
ChildText(d, p, local) ==
    IF NamedChildren(d, p, local) = {} THEN <<>>
    ELSE IF d[Lowest(NamedChildren(d, p, local))].text = None THEN <<>>
    ELSE d[Lowest(NamedChildren(d, p, local))].text
AttribOr(d, p, key, default) ==
    IF key \in DOMAIN d[p].attrib THEN d[p].attrib[key] ELSE default

\* The definition def is the one built from rule r met under group g.
BuiltFrom(def, d, g, r) ==
    /\ def.group_id = AttribOr(d, g, "id", <<>>)
    /\ def.vuln_id = AttribOr(d, g, "id", <<>>)
    /\ def.group_title = ChildText(d, g, S_title)
    /\ def.rule_title = ChildText(d, r, S_title)
    /\ def.severity = AttribOr(d, r, "severity", S_medium)
    /\ def.description = ChildText(d, r, S_description)

\* C15: the rule index holds one definition per rule id, and the definition
\* of an id that occurs under several groups of the resolved benchmark is
\* the one built from the occurrence visited last: the last rule of that id
\* under the last, in document order, of the groups that hold it.
C15_LastVisitedGroupWins ==
    Converted =>
        \A id \in DOMAIN ret.rule_index :
            /\ ret.rule_index[id].rule_id = id
            /\ GroupsHolding(BenchmarkTreeOfCall, ret.benchmark, id) # {}
            /\ BuiltFrom(ret.rule_index[id], BenchmarkTreeOfCall,
                         Highest(GroupsHolding(BenchmarkTreeOfCall, ret.benchmark, id)),
                         Highest(RulesCalled(BenchmarkTreeOfCall,
                                   Highest(GroupsHolding(BenchmarkTreeOfCall, ret.benchmark, id)),
                                   id)))

\* A conversion indexed a rule that lies under a group and under the group
\* nested in it, and its finding carries the inner group's identifier.
C15_Witness ==
    /\ Converted
    /\ \E id \in DOMAIN ret.rule_index :
         /\ \E g1, g2 \in GroupsHolding(BenchmarkTreeOfCall, ret.benchmark, id) :
              /\ IsAncestor(BenchmarkTreeOfCall, g1, g2)
              /\ ret.rule_index[id].group_id = BenchmarkTreeOfCall[g2].attrib.id
              /\ ret.rule_index[id].group_id # BenchmarkTreeOfCall[g1].attrib.id
         /\ \E j \in 1..Len(ret.results) :
              /\ ret.results[j].rule_id = id
              /\ ret.results[j].group_id = ret.rule_index[id].group_id

\* ------------------------------------------------------------ strings everywhere
FindingFields ==
    {"rule_id", "vuln_id", "group_id", "group_title", "rule_title", "severity",
     "description", "check_content", "fix_text", "rule_ver", "cci_ref", "status",
     "finding_details", "comments", "nessus_result"}

\* A value that is a string: a sequence of characters, not the null value
\* and not a missing one.
IsText(s) == s # None /\ s # Absent /\ DOMAIN s = 1..Len(s)

\* The rule the index entry of id was built from.
RuleIndexed(id) ==
    Highest(RulesCalled(BenchmarkTreeOfCall,
                        Highest(GroupsHolding(BenchmarkTreeOfCall, ret.benchmark, id)),
                        id))

\* The finding f of an indexed rule at r gives '' for the texts the rule
\* lacks or leaves empty, and 'medium' for a missing severity.
DefaultsOfRule(f, d, r) ==
    /\ "severity" \notin DOMAIN d[r].attrib => f.severity = S_medium
    /\ ChildText(d, r, S_title) = <<>> => f.rule_title = <<>>
    /\ ChildText(d, r, S_description) = <<>> => f.description = <<>>
    /\ (\A c \in NamedUnder(d, r, S_fixtext) : d[c].text = None) => f.fix_text = <<>>
    /\ (\A c \in NamedUnder(d, r, S_check_content) : d[c].text = None)
           => f.check_content = <<>>
    /\ (\A c \in NamedUnder(d, r, S_version) : d[c].text = None) => f.rule_ver = <<>>
    /\ NamedUnder(d, r, S_ident) = {} => f.cci_ref = <<>>

\* The finding f of the rule-result at rr gives '' for a missing idref and
\* for an empty result, and 'unknown' for a missing result element.
DefaultsOfRuleResult(f, d, rr) ==
    /\ "idref" \notin DOMAIN d[rr].attrib => f.rule_id = <<>>
    /\ NamedChildren(d, rr, S_result) = {} => f.nessus_result = S_unknown
    /\ (NamedChildren(d, rr, S_result) # {}
          /\ d[Lowest(NamedChildren(d, rr, S_result))].text = None)
           => f.nessus_result = <<>>
    /\ NamedUnder(d, rr, S_message) = {} => f.comments = <<>>
    /\ NamedUnder(d, rr, S_check_content_ref) = {} => f.finding_details = <<>>

\* C16: every finding of a conversion has the fifteen fields and each is a
\* string, never null and never missing; what the rule or the rule-result
\* does not say comes out as '', a missing severity as 'medium' and a
\* missing result element as 'unknown'.
C16_EveryFieldIsText ==
    Converted =>
        /\ \A j \in 1..Len(ret.results) :
             /\ DOMAIN ret.results[j] = FindingFields
             /\ \A f \in FindingFields : IsText(ret.results[j][f])
             /\ ret.results[j].rule_id \in DOMAIN ret.rule_index
                  => DefaultsOfRule(ret.results[j], BenchmarkTreeOfCall,
                                    RuleIndexed(ret.results[j].rule_id))
        /\ Len(ret.results) = Len(RuleResultsInScan)
             => \A j \in 1..Len(ret.results) :
                  DefaultsOfRuleResult(ret.results[j], ScanTree, RuleResultsInScan[j])

\* A conversion returned a finding of a rule-result without a result
\* element, for an indexed rule without severity and with empty texts, next
\* to a finding of a rule-result without idref and with an empty result.
C16_Witness ==
    /\ Converted
    /\ Len(ret.results) = Len(RuleResultsInScan)
    /\ \E j \in 1..Len(ret.results) :
         /\ NamedChildren(ScanTree, RuleResultsInScan[j], S_result) = {}
         /\ ret.results[j].nessus_result = S_unknown
         /\ ret.results[j].rule_id \in DOMAIN ret.rule_index
         /\ "severity" \notin
              DOMAIN BenchmarkTreeOfCall[RuleIndexed(ret.results[j].rule_id)].attrib
         /\ ret.results[j].severity = S_medium
         /\ NamedChildren(BenchmarkTreeOfCall, RuleIndexed(ret.results[j].rule_id),
                          S_title) # {}
         /\ ret.results[j].rule_title = <<>>
    /\ \E j \in 1..Len(ret.results) :
         /\ "idref" \notin DOMAIN ScanTree[RuleResultsInScan[j]].attrib
         /\ ret.results[j].rule_id = <<>>
         /\ ret.results[j].nessus_result = <<>>

\* ------------------------------------------------------------ the cache during the run
\* A scan document has been parsed.
Parsed == ret.raised # "pending"

\* C17: every step that ends with a scan document parsed, the step of the
\* first parse and all the steps after it, leaves the cache as it was: the
\* cache changes only before the first parse, and no parse, with a hit, a
\* miss or no reference, adds, removes or replaces an entry.
C17_CacheFrozenFromFirstParse ==
    [][Parsed' => BENCHMARK_CACHE' = BENCHMARK_CACHE]_vars

\* The run is over after two parses against a populated cache, the last
\* one of which took its benchmark from the cache.
C17_Witness ==
    /\ pc = "done"
    /\ idx = 3
    /\ DOMAIN BENCHMARK_CACHE # {}
    /\ ret.raised = "none" /\ ret.hit
====
